---- MODULE Spec2Model ----
(***************************************************************************)
(* Model of mondex: the schema normalizer (migration/formater.go), the     *)
(* diff engine and command emitter of the migration generator, its file    *)
(* writers and version scan, and the live-schema reader (db/mongodb.go).   *)
(*                                                                         *)
(* A snapshot is a sequence of schemas [Collection, Indexes]; Indexes is a *)
(* sequence of indexes [Name, Key].  Key stands for the whole definition   *)
(* of an index apart from its name (key document and options).             *)
(***************************************************************************)
EXTENDS Integers, Sequences, FiniteSets, TLC

VARIABLES
    pc,          \* position of the run
    input,       \* the snapshot handed to prepareSchemas, as a value
    schemas,     \* the caller's slice, sharing its arrays with the callee
    prepared,    \* result of prepareSchemas(schemas)
    prepared2,   \* result of prepareSchemas(prepared)
    current,     \* normalized current snapshot given to the diff
    declared,    \* normalized declared snapshot given to the diff
    toCreate,    \* generateMigrationCommands: schemas to create
    toDrop,      \* generateMigrationCommands: schemas to drop
    upCommand,   \* generateMigrationCommands: up batch
    downCommand, \* generateMigrationCommands: down batch
    dirExists,   \* the migration directory exists
    files,       \* the files of the migration directory: name -> file
    stdout,      \* what the running invocation has printed
    run,         \* arguments and environment of the running invocation
    prevRun,     \* those of the invocation before it, with its outcome
    before,      \* the migration directory when the invocation started
    version,     \* writeMigrationCommands: the version it was given
    result,      \* outcome of the invocation
    runs,        \* invocations started so far
    conn,        \* the MongoDB client of the operation: none, open, closed
    disconnects, \* calls of client.Disconnect
    cancelled,   \* the caller's context is cancelled
    procs        \* concurrent invocations: process -> its position and locals

vars == <<pc, input, schemas, prepared, prepared2,
          current, declared, toCreate, toDrop, upCommand, downCommand,
          dirExists, files, stdout, run, prevRun, before, version, result,
          runs, conn, disconnects, cancelled, procs>>

genVars == <<dirExists, files, stdout, run, prevRun, before, version, result,
             runs>>

pipeVars == <<conn, disconnects, cancelled, procs>>

normVars == <<input, schemas, prepared, prepared2>>
diffVars == <<current, declared, toCreate, toDrop, upCommand, downCommand>>

----------------------------------------------------------------------------
(* Bounds and the universe of inputs *)

MaxSchemas == 2        \* schemas in a snapshot
MaxIndexes == 2        \* indexes in a schema
MaxTotalIndexes == 3   \* indexes in a snapshot handed to the normalizer

collectionsToIgnore == <<"migrate_advisory_lock", "schema_migrations">>
indexesToIgnore == <<"_id_">>

\* Every string of the universe, in the byte-wise order of Go's string
\* comparison ('_' = 0x5f sorts before the lower-case letters).
StrOrder == <<"_id_", "age_1", "email_1", "migrate_advisory_lock",
              "name_1", "orders", "schema_migrations", "users">>

CollectionUniverse == {"migrate_advisory_lock", "orders", "schema_migrations", "users"}

IndexUniverse == { [Name |-> "_id_",    Key |-> "id:1"],
                   [Name |-> "age_1",   Key |-> "age:1"],
                   [Name |-> "age_1",   Key |-> "age:-1"],
                   [Name |-> "email_1", Key |-> "email:1,unique"] }

Range(s) == {s[i] : i \in DOMAIN s}

RECURSIVE Sum(_)
Sum(ks) == IF ks = <<>> THEN 0 ELSE ks[1] + Sum(Tail(ks))

\* the snapshot whose schema i has collection cs[i] and the next ks[i]
\* indexes of flat
BuildSnapshot(cs, ks, flat) ==
    IF cs = <<>> THEN <<>>
    ELSE [i \in DOMAIN cs |->
            [Collection |-> cs[i],
             Indexes |-> SubSeq(flat, Sum(SubSeq(ks, 1, i - 1)) + 1,
                                Sum(SubSeq(ks, 1, i)))]]

\* any snapshot: any collection and index names, the ignored ones
\* included, repeated or not, in any order, empty index lists included
IsRawSnapshot(S) ==
    \E n \in 0..MaxSchemas :
      \E ks \in [1..n -> 0..MaxIndexes] :
        /\ Sum(ks) <= MaxTotalIndexes
        /\ \E cs \in [1..n -> CollectionUniverse] :
             \E flat \in [1..Sum(ks) -> IndexUniverse] :
                S = BuildSnapshot(cs, ks, flat)

\* Inputs of the diff: collections and indexes that normalization keeps.
DiffCollections == {"orders", "users"}

DiffIndexes == { [Name |-> "age_1",   Key |-> "age:1"],
                 [Name |-> "age_1",   Key |-> "age:-1"],
                 [Name |-> "email_1", Key |-> "email:1,unique"],
                 [Name |-> "name_1",  Key |-> "name:1"] }

UniqueIndexNames(indexes) ==
    \A i, j \in DOMAIN indexes : indexes[i].Name = indexes[j].Name => i = j

UniqueCollections(S) ==
    \A i, j \in DOMAIN S : S[i].Collection = S[j].Collection => i = j

\* a snapshot of the data model: one schema per collection, index names
\* unique inside a schema
IsSnapshot(S) ==
    /\ UniqueCollections(S)
    /\ \A i \in DOMAIN S : UniqueIndexNames(S[i].Indexes)

DiffIndexLists ==
    {l \in UNION {[1..n -> DiffIndexes] : n \in 0..MaxIndexes} :
        UniqueIndexNames(l)}

DiffSchemas == [Collection : DiffCollections, Indexes : DiffIndexLists]

\* what a declared-schema file can hold: any list of schemas
DeclaredFiles == UNION {[1..n -> DiffSchemas] : n \in 0..MaxSchemas}

\* what introspection returns: one schema per collection of the database
Introspections == {S \in DeclaredFiles : UniqueCollections(S)}

\* slices.Contains on a list of names
Contains(list, x) == \E i \in DOMAIN list : list[i] = x

Rank(str) == CHOOSE i \in DOMAIN StrOrder : StrOrder[i] = str

\* cmp.Compare on strings
Compare(a, b) == IF Rank(a) < Rank(b) THEN -1
                 ELSE IF Rank(a) > Rank(b) THEN 1 ELSE 0

\* slices.DeleteFunc: the elements that are not among the deleted ones, in
\* their order; deleted is the set of elements for which the predicate of
\* the call is true
DeleteFunc(s, deleted) == SelectSeq(s, LAMBDA x : x \notin deleted)

----------------------------------------------------------------------------
(* Schema normalizer *)

\* variant: the index filter consults the collection ignore-list
isIgnoredIndex_wrongList(i) == Contains(collectionsToIgnore, i.Name)

isIgnoredIndex(i) == Contains(indexesToIgnore, i.Name)

compareIndexes(a, b) == Compare(a.Name, b.Name)

\* variant: the arguments of the comparison are exchanged
compareSchemas_swapped(a, b) == Compare(b.Collection, a.Collection)

compareSchemas(a, b) == Compare(a.Collection, b.Collection)

\* slices.SortFunc on a short slice (insertion sort below 12 elements): an
\* element moves left while it compares less than its left neighbour.  The
\* comparison function of the call is the one for the field sorted by.
SortFunc(s, field) ==
    LET cmp(a, b) == IF field = "Name" THEN compareIndexes(a, b)
                     ELSE compareSchemas(a, b)
        RECURSIVE insert(_, _)
        insert(sorted, x) ==
            IF sorted = <<>> THEN <<x>>
            ELSE IF cmp(x, sorted[Len(sorted)]) < 0
                 THEN Append(insert(SubSeq(sorted, 1, Len(sorted) - 1), x),
                             sorted[Len(sorted)])
                 ELSE Append(sorted, x)
        RECURSIVE sort(_)
        sort(n) == IF n = 0 THEN <<>> ELSE insert(sort(n - 1), s[n])
    IN sort(Len(s))

\* variant: the sorted index slice is compacted, equal neighbours merged
prepareSchemasInPlace_compact(S) ==
    [i \in DOMAIN S |->
        [Collection |-> S[i].Collection,
         Indexes |->
            LET sorted == SortFunc(DeleteFunc(S[i].Indexes,
                              {x \in Range(S[i].Indexes) : isIgnoredIndex(x)}),
                                   "Name")
                RECURSIVE compact(_)
                compact(n) ==
                    IF n = 0 THEN <<>>
                    ELSE IF n > 1 /\ sorted[n] = sorted[n - 1]
                         THEN compact(n - 1)
                         ELSE Append(compact(n - 1), sorted[n])
            IN compact(Len(sorted))]]

\* the loop of prepareSchemas: each schema's index slice is filtered and
\* sorted in its own array and stored back into the slice that was passed in
prepareSchemasInPlace(S) ==
    [i \in DOMAIN S |->
        [Collection |-> S[i].Collection,
         Indexes |->
            SortFunc(DeleteFunc(S[i].Indexes,
                                {x \in Range(S[i].Indexes) : isIgnoredIndex(x)}),
                     "Name")]]

\* variant: only the collection name decides
isDroppedSchema_nameOnly(s) == Contains(collectionsToIgnore, s.Collection)

isDroppedSchema(s) ==
    Contains(collectionsToIgnore, s.Collection) \/ Len(s.Indexes) = 0

\* variant: schemas are dropped before their indexes are filtered
prepareSchemas_dropFirst(S) ==
    SortFunc(prepareSchemasInPlace(
                 DeleteFunc(S, {x \in Range(S) : isDroppedSchema(x)})),
             "Collection")

prepareSchemas(S) ==
    LET filtered == prepareSchemasInPlace(S)
    IN SortFunc(DeleteFunc(filtered,
                           {x \in Range(filtered) : isDroppedSchema(x)}),
                "Collection")

----------------------------------------------------------------------------
(* Values of the command batches *)

\* a nil []byte
NilBytes == [isNil |-> TRUE, commands |-> <<>>]

\* json.MarshalIndent of a command list: never nil, and it determines the
\* list command by command
MarshalIndent(commands) == [isNil |-> FALSE, commands |-> commands]

\* no invocation
NoRun == [db |-> <<>>, file |-> <<>>, onDisk |-> <<>>, dryRun |-> FALSE,
          name |-> "", result |-> "none", up |-> NilBytes, down |-> NilBytes]

\* the state of the generator where no invocation is modelled
GeneratorUnused ==
    /\ dirExists = FALSE
    /\ files = <<>>
    /\ stdout = <<>>
    /\ run = NoRun
    /\ prevRun = NoRun
    /\ before = [dirExists |-> FALSE, files |-> <<>>]
    /\ version = 0
    /\ result = "none"
    /\ runs = 0

\* the variables of the connection and of concurrent invocations, at rest
PipelineUnused ==
    /\ conn = "none"
    /\ disconnects = 0
    /\ cancelled = FALSE
    /\ procs = <<>>

----------------------------------------------------------------------------
(* Diff engine and command emitter *)

\* slices.IndexFunc on the collection name: the first position whose schema
\* has that collection, 0 when there is none (-1 in the source)
IndexFunc(S, collection) ==
    IF \E i \in DOMAIN S : S[i].Collection = collection
    THEN CHOOSE i \in DOMAIN S :
            /\ S[i].Collection = collection
            /\ \A k \in 1..(i - 1) : S[k].Collection # collection
    ELSE 0

\* variant: two indexes match only when their whole definition is equal
indexesDifference_byContent(i1, i2) ==
    SelectSeq(i1, LAMBDA i : ~(\E k \in DOMAIN i2 : i2[k] = i))

\* variant: the match predicate is negated
indexesDifference_negated(i1, i2) ==
    SelectSeq(i1, LAMBDA i : ~(\E k \in DOMAIN i2 : i2[k].Name # i.Name))

indexesDifference(i1, i2) ==
    SelectSeq(i1, LAMBDA i : ~(\E k \in DOMAIN i2 : i2[k].Name = i.Name))

\* variant: a collection with no counterpart is skipped
diffLoop_skipMissing(from, against) ==
    LET entry(s) ==
            LET idx == IndexFunc(against, s.Collection)
                diff == indexesDifference(s.Indexes, against[idx].Indexes)
            IN IF idx = 0 THEN <<>>
               ELSE IF Len(diff) > 0
                    THEN <<[Collection |-> s.Collection, Indexes |-> diff]>>
                    ELSE <<>>
        RECURSIVE loop(_)
        loop(n) == IF n = 0 THEN <<>> ELSE loop(n - 1) \o entry(from[n])
    IN loop(Len(from))

\* one loop of generateMigrationCommands: the entries that the schemas of
\* `from` contribute when compared with `against`
diffLoop(from, against) ==
    LET entry(s) ==
            LET idx == IndexFunc(against, s.Collection)
                diff == indexesDifference(s.Indexes, against[idx].Indexes)
            IN IF idx = 0 THEN <<s>>
               ELSE IF Len(diff) > 0
                    THEN <<[Collection |-> s.Collection, Indexes |-> diff]>>
                    ELSE <<>>
        RECURSIVE loop(_)
        loop(n) == IF n = 0 THEN <<>> ELSE loop(n - 1) \o entry(from[n])
    IN loop(Len(from))

computeToCreate(cur, dec) == diffLoop(dec, cur)

\* variant: the second loop repeats the first
computeToDrop_sameAsCreate(cur, dec) == diffLoop(dec, cur)

computeToDrop(cur, dec) == diffLoop(cur, dec)

IndexNames(indexes) == [j \in DOMAIN indexes |-> indexes[j].Name]

generateCreateIndexesCommands(S) ==
    [i \in DOMAIN S |-> [op |-> "createIndexes",
                         collection |-> S[i].Collection,
                         indexes |-> S[i].Indexes]]

\* for a drop command `indexes` is the list of names (key "index")
generateDestroyIndexCommands(S) ==
    LET RECURSIVE loop(_)
        loop(n) ==
            IF n = 0 THEN <<>>
            ELSE IF Len(IndexNames(S[n].Indexes)) > 0
                 THEN Append(loop(n - 1),
                             [op |-> "dropIndexes",
                              collection |-> S[n].Collection,
                              indexes |-> IndexNames(S[n].Indexes)])
                 ELSE loop(n - 1)
    IN loop(Len(S))

\* variant: drops are emitted before creations
upCommands_dropsFirst(create, drop) ==
    generateDestroyIndexCommands(drop) \o generateCreateIndexesCommands(create)

upCommands(create, drop) ==
    generateCreateIndexesCommands(create) \o generateDestroyIndexCommands(drop)

\* variant: the down batch is built from the same lists as the up batch
downCommands_sameAsUp(create, drop) ==
    generateDestroyIndexCommands(drop) \o generateCreateIndexesCommands(create)

downCommands(create, drop) ==
    generateDestroyIndexCommands(create) \o generateCreateIndexesCommands(drop)

\* variant: one empty list is enough for the no-changes result
generateMigrationCommands_either(cur, dec) ==
    LET create == computeToCreate(cur, dec)
        drop == computeToDrop(cur, dec)
    IN IF Len(create) = 0 \/ Len(drop) = 0
       THEN [toCreate |-> create, toDrop |-> drop,
             up |-> NilBytes, down |-> NilBytes]
       ELSE [toCreate |-> create, toDrop |-> drop,
             up |-> MarshalIndent(upCommands(create, drop)),
             down |-> MarshalIndent(downCommands(create, drop))]

generateMigrationCommands(cur, dec) ==
    LET create == computeToCreate(cur, dec)
        drop == computeToDrop(cur, dec)
    IN IF Len(create) = 0 /\ Len(drop) = 0
       THEN [toCreate |-> create, toDrop |-> drop,
             up |-> NilBytes, down |-> NilBytes]
       ELSE [toCreate |-> create, toDrop |-> drop,
             up |-> MarshalIndent(upCommands(create, drop)),
             down |-> MarshalIndent(downCommands(create, drop))]

----------------------------------------------------------------------------
(* Specification of the normalizer: prepareSchemas applied to a snapshot   *)
(* and then to its own result.                                             *)

InitNormalize ==
    /\ pc = "start"
    /\ IsRawSnapshot(input)
    /\ schemas = input
    /\ prepared = <<>>
    /\ prepared2 = <<>>
    /\ current = <<>>
    /\ declared = <<>>
    /\ toCreate = <<>>
    /\ toDrop = <<>>
    /\ upCommand = NilBytes
    /\ downCommand = NilBytes
    /\ GeneratorUnused
    /\ PipelineUnused

\* prepared = prepareSchemas(schemas); the caller's slice sees the stores
\* of the loop
PrepareSchemas ==
    /\ pc = "start"
    /\ prepared' = prepareSchemas(schemas)
    /\ schemas' = prepareSchemasInPlace(schemas)
    /\ pc' = "prepared"
    /\ UNCHANGED <<input, prepared2>>
    /\ UNCHANGED diffVars
    /\ UNCHANGED genVars
    /\ UNCHANGED pipeVars

\* prepared2 = prepareSchemas(prepared); prepared is now the slice passed in
PrepareSchemasAgain ==
    /\ pc = "prepared"
    /\ prepared2' = prepareSchemas(prepared)
    /\ prepared' = prepareSchemasInPlace(prepared)
    /\ pc' = "again"
    /\ UNCHANGED <<input, schemas>>
    /\ UNCHANGED diffVars
    /\ UNCHANGED genVars
    /\ UNCHANGED pipeVars

NextNormalize == PrepareSchemas \/ PrepareSchemasAgain

SpecNormalize == InitNormalize /\ [][NextNormalize]_vars

----------------------------------------------------------------------------
(* Properties of the normalizer, under SpecNormalize *)

IgnoredCollectionNames == {"migrate_advisory_lock", "schema_migrations"}
IgnoredIndexNames == {"_id_"}

NameLeq(a, b) == Rank(a) <= Rank(b)

HasIgnored(S) ==
    /\ \E i \in DOMAIN S : S[i].Collection \in IgnoredCollectionNames
    /\ \E i \in DOMAIN S :
          /\ S[i].Collection \notin IgnoredCollectionNames
          /\ \E j \in DOMAIN S[i].Indexes :
                S[i].Indexes[j].Name \in IgnoredIndexNames

\* C7: normalization is idempotent: prepareSchemas applied to the result of
\* prepareSchemas returns that result, for any snapshot.
C7_Idempotent == [][pc = "prepared" => prepared2' = prepared]_vars

C7_Witness ==
    /\ pc = "again"
    /\ prepared2 # <<>>
    /\ prepared2 # input
    /\ HasIgnored(input)

\* C8: the result of prepareSchemas holds no schema of an ignored collection
\* (migrate_advisory_lock, schema_migrations) and no index named _id_.
C8_IgnoredRemoved ==
    pc # "start" =>
        \A i \in DOMAIN prepared :
            /\ prepared[i].Collection \notin IgnoredCollectionNames
            /\ \A j \in DOMAIN prepared[i].Indexes :
                  prepared[i].Indexes[j].Name \notin IgnoredIndexNames

C8_Witness ==
    /\ pc = "prepared"
    /\ HasIgnored(input)
    /\ prepared # <<>>

\* C9: prepareSchemas does not mutate its input: after the call the caller's
\* snapshot has the same schemas, each with the same indexes in the same
\* order, as before the call.
C9_InputNotMutated == pc # "start" => schemas = input

\* C10: in the result of prepareSchemas the schemas are in ascending order
\* of collection name and the indexes of every schema are in ascending
\* order of index name.
C10_Sorted ==
    pc # "start" =>
        /\ \A i \in 1..(Len(prepared) - 1) :
              NameLeq(prepared[i].Collection, prepared[i + 1].Collection)
        /\ \A i \in DOMAIN prepared :
              \A j \in 1..(Len(prepared[i].Indexes) - 1) :
                  NameLeq(prepared[i].Indexes[j].Name,
                          prepared[i].Indexes[j + 1].Name)

\* both schemas of the input survive and are out of order, and so are the
\* two indexes of the first
C10_Witness ==
    /\ pc = "prepared"
    /\ Len(input) = 2
    /\ Len(prepared) = 2
    /\ Rank(input[1].Collection) > Rank(input[2].Collection)
    /\ Len(input[1].Indexes) = 2
    /\ Rank(input[1].Indexes[1].Name) > Rank(input[1].Indexes[2].Name)
    /\ Len(prepared[2].Indexes) = 2
    /\ prepared[2].Indexes # input[1].Indexes

\* collections all of whose schemas in S hold ignored indexes only, or none
BareCollections(S) ==
    {c \in {S[i].Collection : i \in DOMAIN S} :
        \A i \in DOMAIN S :
            S[i].Collection = c =>
                \A j \in DOMAIN S[i].Indexes :
                    S[i].Indexes[j].Name \in IgnoredIndexNames}

\* collections named by the commands of a batch
BatchCollections(batch) ==
    {batch.commands[k].collection : k \in DOMAIN batch.commands}

\* C11: the result of prepareSchemas holds no schema with zero indexes: a
\* collection whose indexes are all ignored, or that has none, is absent
\* from the result and no command of a diff of the result names it.
C11_NoEmptySchema ==
    pc # "start" =>
        /\ \A i \in DOMAIN prepared : Len(prepared[i].Indexes) > 0
        /\ \A c \in BareCollections(input) :
              /\ \A i \in DOMAIN prepared : prepared[i].Collection # c
              /\ c \notin BatchCollections(
                              generateMigrationCommands(prepared, <<>>).up)
              /\ c \notin BatchCollections(
                              generateMigrationCommands(<<>>, prepared).up)

\* a collection that is not ignored holds _id_ only, next to one that stays
C11_Witness ==
    /\ pc = "prepared"
    /\ prepared # <<>>
    /\ \E i \in DOMAIN input :
          /\ input[i].Collection \in BareCollections(input)
          /\ input[i].Collection \notin IgnoredCollectionNames
          /\ Len(input[i].Indexes) > 0

\* no element occurs twice in the sequence
NoRepeat(seq) == \A i, j \in DOMAIN seq : seq[i] = seq[j] => i = j

\* C24: a snapshot that enters the diff holds no two indexes of one name in
\* a collection and no two schemas of one collection, so that no
\* createIndexes or dropIndexes command names an index twice, also when the
\* declared file holds duplicates.
C24_NamesUnique ==
    pc # "start" =>
        /\ IsSnapshot(prepared)
        /\ LET creates == generateMigrationCommands(<<>>, prepared).up.commands
               drops == generateMigrationCommands(prepared, <<>>).up.commands
           IN /\ \A k \in DOMAIN creates : NoRepeat(IndexNames(creates[k].indexes))
              /\ \A k \in DOMAIN drops : NoRepeat(drops[k].indexes)

\* how many times index x stands under collection c in snapshot S
Occurrences(S, c, x) ==
    Cardinality({p \in {<<i, j>> : i \in DOMAIN S, j \in 1..MaxTotalIndexes} :
                    /\ S[p[1]].Collection = c
                    /\ p[2] \in DOMAIN S[p[1]].Indexes
                    /\ S[p[1]].Indexes[p[2]] = x})

\* C27: for a snapshot with unique collection names, an index that is not
\* ignored, in a collection that is not ignored, stands in the result of
\* prepareSchemas under the same collection as many times as in the input,
\* unchanged; and every collection and index of the result is one of the
\* input.
C27_NothingLostOrInvented ==
    (pc # "start" /\ UniqueCollections(input)) =>
        /\ \A c \in CollectionUniverse \ IgnoredCollectionNames :
              \A x \in IndexUniverse :
                  x.Name \notin IgnoredIndexNames =>
                      Occurrences(prepared, c, x) = Occurrences(input, c, x)
        /\ \A i \in DOMAIN prepared :
              /\ \E k \in DOMAIN input : input[k].Collection = prepared[i].Collection
              /\ \A j \in DOMAIN prepared[i].Indexes :
                    Occurrences(input, prepared[i].Collection,
                                prepared[i].Indexes[j]) > 0

C27_Witness ==
    /\ pc = "prepared" /\ UniqueCollections(input)
    /\ Len(input) = 2
    /\ \E i \in DOMAIN input : input[i].Collection \in IgnoredCollectionNames
    /\ \E i \in DOMAIN input :
          /\ input[i].Collection \notin IgnoredCollectionNames
          /\ \E j, k \in DOMAIN input[i].Indexes :
                /\ j # k /\ input[i].Indexes[j] = input[i].Indexes[k]
                /\ input[i].Indexes[j].Name \notin IgnoredIndexNames
                /\ Occurrences(prepared, input[i].Collection, input[i].Indexes[j]) = 2
    /\ \E i \in DOMAIN input : \E j \in DOMAIN input[i].Indexes :
          input[i].Indexes[j].Name \in IgnoredIndexNames

----------------------------------------------------------------------------
(* Specification of the diff: generateMigrationCommands applied to a       *)
(* normalized current snapshot and a normalized declared snapshot.         *)

NormalizedCurrent == {prepareSchemas(S) : S \in Introspections}

NormalizedDeclared == {prepareSchemas(S) : S \in DeclaredFiles}

InitDiff ==
    /\ pc = "start"
    /\ current \in NormalizedCurrent
    /\ declared \in NormalizedDeclared
    /\ toCreate = <<>>
    /\ toDrop = <<>>
    /\ upCommand = NilBytes
    /\ downCommand = NilBytes
    /\ input = <<>>
    /\ schemas = <<>>
    /\ prepared = <<>>
    /\ prepared2 = <<>>
    /\ GeneratorUnused
    /\ PipelineUnused

GenerateMigrationCommands ==
    /\ pc = "start"
    /\ LET r == generateMigrationCommands(current, declared)
       IN /\ toCreate' = r.toCreate
          /\ toDrop' = r.toDrop
          /\ upCommand' = r.up
          /\ downCommand' = r.down
    /\ pc' = "generated"
    /\ UNCHANGED <<current, declared>>
    /\ UNCHANGED normVars
    /\ UNCHANGED genVars
    /\ UNCHANGED pipeVars

NextDiff == GenerateMigrationCommands

SpecDiff == InitDiff /\ [][NextDiff]_vars

----------------------------------------------------------------------------
(* Properties of the diff and of the emitted batches, under SpecDiff.      *)
(* Where a property speaks of "the" schema of a collection it is stated    *)
(* for declared snapshots of the data model (IsSnapshot); the current      *)
(* snapshot always is one.                                                 *)

NameSet(indexes) == {indexes[j].Name : j \in DOMAIN indexes}

Collections(S) == {S[i].Collection : i \in DOMAIN S}

\* positions of the entries of S for collection c
EntriesOf(S, c) == {i \in DOMAIN S : S[i].Collection = c}

\* the database as a map from collection to set of index names
DbOf(S) ==
    [c \in DiffCollections |->
        UNION {NameSet(S[i].Indexes) : i \in EntriesOf(S, c)}]

\* createIndexes adds the named indexes, dropIndexes removes them
ApplyCommand(db, cmd) ==
    IF cmd.op = "createIndexes"
    THEN [db EXCEPT ![cmd.collection] = @ \cup NameSet(cmd.indexes)]
    ELSE [db EXCEPT ![cmd.collection] = @ \ Range(cmd.indexes)]

\* the commands of a batch applied in batch order; a nil batch has none
ApplyBatch(db, batch) ==
    LET RECURSIVE apply(_)
        apply(n) == IF n = 0 THEN db
                    ELSE ApplyCommand(apply(n - 1), batch.commands[n])
    IN apply(Len(batch.commands))

\* C1: diff/emit inverse law: the up batch applied to the index-name sets
\* of the current snapshot yields those of the declared snapshot, and the
\* down batch applied afterwards yields those of the current snapshot again.
C1_InverseLaw ==
    (pc = "generated" /\ IsSnapshot(declared)) =>
        /\ ApplyBatch(DbOf(current), upCommand) = DbOf(declared)
        /\ ApplyBatch(ApplyBatch(DbOf(current), upCommand), downCommand)
              = DbOf(current)

\* the up batch creates and drops in one collection and drops another whole
C1_Witness ==
    /\ pc = "generated"
    /\ IsSnapshot(declared)
    /\ \E c \in DiffCollections :
          /\ \E i \in DOMAIN toCreate : toCreate[i].Collection = c
          /\ \E i \in DOMAIN toDrop : toDrop[i].Collection = c
    /\ \E c \in Collections(current) : c \notin Collections(declared)
    /\ DbOf(current) # DbOf(declared)

\* the indexes of `left` whose name does not occur in `right`, in order
ByNameOnly(left, right) ==
    SelectSeq(left, LAMBDA i : i.Name \notin NameSet(right))

\* S holds exactly one entry for c, with these indexes, when there are
\* any, and no entry for c otherwise
HoldsExactly(S, c, indexes) ==
    IF indexes = <<>>
    THEN EntriesOf(S, c) = {}
    ELSE /\ Cardinality(EntriesOf(S, c)) = 1
         /\ \A i \in EntriesOf(S, c) : S[i].Indexes = indexes

\* C2: for a collection present in both snapshots, toCreate holds exactly
\* the declared indexes whose name is not among the current ones and toDrop
\* exactly the current indexes whose name is not among the declared ones,
\* in input order; names only are compared, and an empty difference gives
\* no entry.
C2_NameKeyedDifference ==
    (pc = "generated" /\ IsSnapshot(declared)) =>
        \A c \in Collections(current) \cap Collections(declared) :
            LET cs == current[IndexFunc(current, c)].Indexes
                ds == declared[IndexFunc(declared, c)].Indexes
            IN /\ HoldsExactly(toCreate, c, ByNameOnly(ds, cs))
               /\ HoldsExactly(toDrop, c, ByNameOnly(cs, ds))

\* a collection on both sides with one index of the same name and another
\* definition, one index to create and one to drop
C2_Witness ==
    /\ pc = "generated"
    /\ IsSnapshot(declared)
    /\ \E c \in Collections(current) \cap Collections(declared) :
          LET cs == current[IndexFunc(current, c)].Indexes
              ds == declared[IndexFunc(declared, c)].Indexes
          IN /\ \E i \in DOMAIN cs : \E j \in DOMAIN ds :
                    cs[i].Name = ds[j].Name /\ cs[i].Key # ds[j].Key
             /\ EntriesOf(toCreate, c) # {}
             /\ EntriesOf(toDrop, c) # {}

\* C3: a collection present in one snapshot only has one entry with all of
\* its indexes on its side (toCreate for a declared one, toDrop for a
\* current one) and no entry on the other; with an empty declared snapshot
\* toCreate is empty and toDrop is the current snapshot.
C3_WholeCollection ==
    (pc = "generated" /\ IsSnapshot(declared)) =>
        /\ \A c \in Collections(declared) \ Collections(current) :
              /\ HoldsExactly(toCreate, c,
                              declared[IndexFunc(declared, c)].Indexes)
              /\ EntriesOf(toDrop, c) = {}
        /\ \A c \in Collections(current) \ Collections(declared) :
              /\ HoldsExactly(toDrop, c,
                              current[IndexFunc(current, c)].Indexes)
              /\ EntriesOf(toCreate, c) = {}
        /\ declared = <<>> => (toCreate = <<>> /\ toDrop = current)

C3_Witness ==
    /\ pc = "generated"
    /\ IsSnapshot(declared)
    /\ Collections(declared) \ Collections(current) # {}
    /\ Collections(current) \ Collections(declared) # {}
    /\ \A i \in DOMAIN current : Len(current[i].Indexes) = 2
    /\ \A i \in DOMAIN declared : Len(declared[i].Indexes) = 2

\* C4: diff symmetry: a snapshot diffed against itself gives an empty
\* toCreate and an empty toDrop, the no-changes result.
C4_DiffSymmetry ==
    (pc = "generated" /\ current = declared) =>
        /\ toCreate = <<>>
        /\ toDrop = <<>>
        /\ upCommand.isNil
        /\ downCommand.isNil

C4_Witness ==
    /\ pc = "generated"
    /\ current = declared
    /\ Len(current) = 2
    /\ \A i \in DOMAIN current : Len(current[i].Indexes) = 2

\* cmd is the command with this operation, collection and index list
IsCommand(cmd, op, collection, indexes) ==
    /\ cmd.op = op
    /\ cmd.collection = collection
    /\ cmd.indexes = indexes

IsCreate(cmd) == cmd.op = "createIndexes"
IsDrop(cmd) == cmd.op = "dropIndexes"

\* index names that the batch creates / drops in collection c
CreatedNames(batch, c) ==
    UNION {NameSet(batch.commands[k].indexes) :
             k \in {k \in DOMAIN batch.commands :
                      IsCreate(batch.commands[k])
                      /\ batch.commands[k].collection = c}}

DroppedNames(batch, c) ==
    UNION {Range(batch.commands[k].indexes) :
             k \in {k \in DOMAIN batch.commands :
                      IsDrop(batch.commands[k])
                      /\ batch.commands[k].collection = c}}

\* index definitions that the batch creates in collection c
CreatedIndexes(batch, c) ==
    UNION {Range(batch.commands[k].indexes) :
             k \in {k \in DOMAIN batch.commands :
                      IsCreate(batch.commands[k])
                      /\ batch.commands[k].collection = c}}

\* the definitions, in the current snapshot, of the indexes of c named in
\* names
CurrentDefinitions(c, names) ==
    UNION {{current[i].Indexes[j] : j \in {j \in DOMAIN current[i].Indexes :
                                          current[i].Indexes[j].Name \in names}} :
             i \in EntriesOf(current, c)}

\* C5: the down batch is the drop commands for toCreate followed by the
\* create commands for toDrop; per collection it drops exactly the names
\* that up creates and creates exactly the definitions that up drops.
C5_DownMirrorsUp ==
    (pc = "generated" /\ ~upCommand.isNil) =>
        /\ ~downCommand.isNil
        /\ Len(downCommand.commands) = Len(toCreate) + Len(toDrop)
        /\ \A i \in DOMAIN toCreate :
              IsCommand(downCommand.commands[i], "dropIndexes",
                        toCreate[i].Collection,
                        IndexNames(toCreate[i].Indexes))
        /\ \A i \in DOMAIN toDrop :
              IsCommand(downCommand.commands[Len(toCreate) + i],
                        "createIndexes", toDrop[i].Collection,
                        toDrop[i].Indexes)
        /\ \A c \in DiffCollections :
              /\ DroppedNames(downCommand, c) = CreatedNames(upCommand, c)
              /\ CreatedIndexes(downCommand, c) =
                     CurrentDefinitions(c, DroppedNames(upCommand, c))

C5_Witness ==
    /\ pc = "generated"
    /\ ~upCommand.isNil
    /\ Len(toCreate) = 2
    /\ Len(toDrop) = 2

\* C6: in the up batch every createIndexes command comes before every
\* dropIndexes command: the batch is the create commands for toCreate, in
\* order, then the drop commands for toDrop, in order, with at most one
\* create and one drop command per collection.
C6_CreatesBeforeDrops ==
    (pc = "generated" /\ ~upCommand.isNil) =>
        LET cmds == upCommand.commands
        IN /\ Len(cmds) = Len(toCreate) + Len(toDrop)
           /\ \A i \in DOMAIN toCreate :
                 IsCommand(cmds[i], "createIndexes",
                           toCreate[i].Collection, toCreate[i].Indexes)
           /\ \A i \in DOMAIN toDrop :
                 IsCommand(cmds[Len(toCreate) + i], "dropIndexes",
                           toDrop[i].Collection,
                           IndexNames(toDrop[i].Indexes))
           /\ \A i, j \in DOMAIN cmds :
                 (IsCreate(cmds[i]) /\ IsDrop(cmds[j])) => i < j
           /\ IsSnapshot(declared) =>
                 \A i, j \in DOMAIN cmds :
                     (cmds[i].op = cmds[j].op
                      /\ cmds[i].collection = cmds[j].collection) => i = j

C6_Witness ==
    /\ pc = "generated"
    /\ IsSnapshot(declared)
    /\ \E i, j \in DOMAIN upCommand.commands :
          /\ IsCreate(upCommand.commands[i])
          /\ IsDrop(upCommand.commands[j])
          /\ upCommand.commands[i].collection = upCommand.commands[j].collection
    /\ Len(upCommand.commands) >= 3

----------------------------------------------------------------------------
(* Migration directory and version numbers                                 *)
(*                                                                         *)
(* A file name is [tok, under, name, ext]: tok is the text before the      *)
(* first "_" (a sequence of characters), under says whether there is a     *)
(* "_", name is the text between it and the extension ext.  A file is      *)
(* [content, perm].  Versions are unsigned integers of UintBits bits.      *)

UintBits == 2       \* width of a version (64 in the source)
MaxDirFiles == 2    \* files in the directory before the first invocation

MaxUint == 2 ^ UintBits - 1

Digits == <<"0", "1", "2", "3", "4", "5", "6", "7", "8", "9">>

IsDigit(ch) == \E i \in DOMAIN Digits : Digits[i] = ch

DigitValue(ch) == (CHOOSE i \in DOMAIN Digits : Digits[i] = ch) - 1

\* the decimal digits of v
RECURSIVE DecimalDigits(_)
DecimalDigits(v) ==
    IF v < 10 THEN <<Digits[v + 1]>>
    ELSE Append(DecimalDigits(v \div 10), Digits[(v % 10) + 1])

\* fmt.Sprintf("%06d", v): the decimal digits, zero-padded to 6 at least
Sprintf06d(v) ==
    LET d == DecimalDigits(v)
    IN IF Len(d) >= 6 THEN d
       ELSE [i \in 1..(6 - Len(d)) |-> "0"] \o d

\* the value of a sequence of decimal digits
RECURSIVE DecimalValue(_)
DecimalValue(tok) ==
    IF tok = <<>> THEN 0
    ELSE 10 * DecimalValue(SubSeq(tok, 1, Len(tok) - 1))
         + DigitValue(tok[Len(tok)])

\* strconv.ParseUint(tok, 10, 64): an error for an empty text, for a
\* character that is not a digit and for a value out of range
ParseUint(tok) ==
    IF tok = <<>> \/ \E i \in DOMAIN tok : ~IsDigit(tok[i])
    THEN [err |-> TRUE, value |-> 0]
    ELSE IF DecimalValue(tok) > MaxUint
         THEN [err |-> TRUE, value |-> MaxUint]
         ELSE [err |-> FALSE, value |-> DecimalValue(tok)]

\* filepath.Glob(dir/*.json): the names that end in .json
GlobJson(fs) == {f \in DOMAIN fs : f.ext \in {".up.json", ".down.json", ".json"}}

\* the versions that the loop of getNextVersion reads from the matches
ParsedVersions(matches) ==
    {ParseUint(f.tok).value : f \in {g \in matches : g.under /\ ~ParseUint(g.tok).err}}

SetMax(S) == IF S = {} THEN 0 ELSE CHOOSE x \in S : \A y \in S : y <= x

\* variant: a file name that does not parse makes the scan fail
getNextVersion_strict(fs) ==
    LET matches == GlobJson(fs)
    IN IF matches = {} THEN [err |-> FALSE, value |-> 1]
       ELSE IF \E f \in matches : f.under /\ ParseUint(f.tok).err
            THEN [err |-> TRUE, value |-> 0]
            ELSE [err |-> FALSE,
                  value |-> (SetMax(ParsedVersions(matches)) + 1) % (2 ^ UintBits)]

\* getNextVersion: maxVersion + 1 in unsigned arithmetic
getNextVersion(fs) ==
    LET matches == GlobJson(fs)
    IN IF matches = {} THEN [err |-> FALSE, value |-> 1]
       ELSE [err |-> FALSE,
             value |-> (SetMax(ParsedVersions(matches)) + 1) % (2 ^ UintBits)]

MigrationFileName(v, name, ext) ==
    [tok |-> Sprintf06d(v), under |-> TRUE, name |-> name, ext |-> ext]

\* content of a file that was in the directory before the first invocation
OldContent ==
    MarshalIndent(<<[op |-> "createIndexes", collection |-> "legacy",
                     indexes |-> <<>>]>>)

OldFile == [content |-> OldContent, perm |-> "0644"]

\* leading tokens of the files found in a directory: every version, padded
\* as the writer pads it, one not padded, and tokens that do not parse
\* (letters, a sign, nothing, a value above the range)
DirTokens ==
    {Sprintf06d(v) : v \in 0..MaxUint}
    \cup {<<"2">>, <<"a", "b">>, <<"-", "1">>, <<>>, DecimalDigits(MaxUint + 1)}

DirFileNames ==
    [tok : DirTokens, under : {TRUE}, name : {"init"}, ext : {".up.json", ".down.json"}]
    \cup {[tok |-> <<"n">>, under |-> FALSE, name |-> "", ext |-> ".json"],
          [tok |-> Sprintf06d(MaxUint), under |-> TRUE, name |-> "init", ext |-> ".up.sql"]}

\* os.WriteFile(path, data, 0600): a new file gets the permissions, an
\* existing one is truncated and keeps its own
WriteFile(fs, fname, data) ==
    [f \in DOMAIN fs \cup {fname} |->
        IF f = fname
        THEN [content |-> data,
              perm |-> IF fname \in DOMAIN fs THEN fs[fname].perm ELSE "0600"]
        ELSE fs[f]]

----------------------------------------------------------------------------
(* Specification of the version scan: the first two steps of               *)
(* writeMigrationCommands (os.MkdirAll, getNextVersion) on a directory.    *)

InitVersion ==
    /\ pc = "start"
    /\ dirExists \in BOOLEAN
    /\ \E names \in SUBSET DirFileNames :
          /\ Cardinality(names) <= MaxDirFiles
          /\ dirExists \/ names = {}
          /\ files = [f \in names |-> OldFile]
    /\ stdout = <<>>
    /\ run = NoRun
    /\ prevRun = NoRun
    /\ before = [dirExists |-> dirExists, files |-> files]
    /\ version = 0
    /\ result = "none"
    /\ runs = 0
    /\ input = <<>>
    /\ schemas = <<>>
    /\ prepared = <<>>
    /\ prepared2 = <<>>
    /\ current = <<>>
    /\ declared = <<>>
    /\ toCreate = <<>>
    /\ toDrop = <<>>
    /\ upCommand = NilBytes
    /\ downCommand = NilBytes
    /\ PipelineUnused

\* writeMigrationCommands up to the version: os.MkdirAll, getNextVersion
MkdirAndGetNextVersion ==
    /\ pc = "start"
    /\ dirExists' = TRUE
    /\ LET v == getNextVersion(files)
       IN /\ version' = v.value
          /\ result' = IF v.err THEN "error" ELSE "versioned"
    /\ pc' = "versioned"
    /\ UNCHANGED <<files, stdout, run, prevRun, before, runs>>
    /\ UNCHANGED normVars
    /\ UNCHANGED diffVars
    /\ UNCHANGED pipeVars

NextOfVersion == MkdirAndGetNextVersion

SpecVersion == InitVersion /\ [][NextOfVersion]_vars

----------------------------------------------------------------------------
(* Specification of the generator: invocations of GenerateMigrationScripts *)
(* one after the other, on one database, one declared-schema file, which   *)
(* may be edited between two invocations, and one migration directory.     *)

MaxRuns == 2    \* invocations in a behaviour

IdIndex == [Name |-> "_id_", Key |-> "id:1"]
AgeIndex == [Name |-> "age_1", Key |-> "age:1"]
EmailIndex == [Name |-> "email_1", Key |-> "email:1,unique"]

\* what the declared-schema file holds
GenSnapshots ==
    { <<>>,
      <<[Collection |-> "users", Indexes |-> <<EmailIndex>>]>>,
      <<[Collection |-> "orders", Indexes |-> <<AgeIndex>>]>> }

\* what the database holds: every collection has its _id_ index
GenDatabases ==
    { <<>>,
      <<[Collection |-> "users", Indexes |-> <<EmailIndex, IdIndex>>],
        [Collection |-> "schema_migrations", Indexes |-> <<IdIndex>>]>> }

MigrationNames == {"init", "add"}

\* files of the directory before the first invocation
GenDirFileNames ==
    { MigrationFileName(1, "init", ".up.json"),
      MigrationFileName(MaxUint, "init", ".up.json"),
      MigrationFileName(0, "init", ".up.json"),
      [tok |-> <<"a", "b">>, under |-> TRUE, name |-> "init", ext |-> ".up.json"] }

InitGenerate ==
    /\ pc = "idle"
    /\ dirExists \in BOOLEAN
    /\ \E names \in SUBSET GenDirFileNames :
          /\ Cardinality(names) <= MaxDirFiles
          /\ dirExists \/ names = {}
          /\ files = [f \in names |-> OldFile]
    /\ \E db \in GenDatabases, file \in GenSnapshots :
          run = [NoRun EXCEPT !.db = db, !.onDisk = file]
    /\ prevRun = NoRun
    /\ stdout = <<>>
    /\ before = [dirExists |-> dirExists, files |-> files]
    /\ version = 0
    /\ result = "none"
    /\ runs = 0
    /\ input = <<>>
    /\ schemas = <<>>
    /\ prepared = <<>>
    /\ prepared2 = <<>>
    /\ current = <<>>
    /\ declared = <<>>
    /\ toCreate = <<>>
    /\ toDrop = <<>>
    /\ upCommand = NilBytes
    /\ downCommand = NilBytes
    /\ PipelineUnused

\* the invocation is over with this outcome
Return(outcome) ==
    /\ result' = outcome
    /\ pc' = "idle"

\* the declared-schema file is edited between two invocations
EditDeclaredFile ==
    /\ pc = "idle"
    /\ runs < MaxRuns
    /\ \E file \in GenSnapshots \ {run.onDisk} :
          run' = [run EXCEPT !.onDisk = file]
    /\ UNCHANGED <<pc, dirExists, files, stdout, prevRun, before, version,
                   result, runs>>
    /\ UNCHANGED normVars
    /\ UNCHANGED diffVars
    /\ UNCHANGED pipeVars

\* mondex diff <name> [--dry-run] is started
StartRun ==
    /\ pc = "idle"
    /\ runs < MaxRuns
    /\ runs' = runs + 1
    /\ \E dryRun \in BOOLEAN, name \in MigrationNames :
          run' = [run EXCEPT !.file = run.onDisk, !.dryRun = dryRun,
                             !.name = name]
    /\ prevRun' = [run EXCEPT !.result = result, !.up = upCommand,
                              !.down = downCommand, !.onDisk = <<>>]
    /\ before' = [dirExists |-> dirExists, files |-> files]
    /\ stdout' = <<>>
    /\ result' = "running"
    /\ current' = <<>>
    /\ declared' = <<>>
    /\ toCreate' = <<>>
    /\ toDrop' = <<>>
    /\ upCommand' = NilBytes
    /\ downCommand' = NilBytes
    /\ pc' = "scripts"
    /\ UNCHANGED <<dirExists, files, version>>
    /\ UNCHANGED normVars
    /\ UNCHANGED pipeVars

\* variant: the dry-run flag is not looked at
dispatch_noDryRun(up, down, dryRun) ==
    IF up.isNil /\ down.isNil THEN "nochanges" ELSE "write"

\* what GenerateMigrationScripts does with the two batches
dispatch(up, down, dryRun) ==
    IF up.isNil /\ down.isNil THEN "nochanges"
    ELSE IF dryRun THEN "printed" ELSE "write"

\* what a dry run writes to the standard output
DryRunOutput(up, down) ==
    <<[label |-> "Up migration:", bytes |-> up],
      [label |-> "\nDown migration:", bytes |-> down]>>

\* variant: a directory that holds migration files counts as up to date
generateMigrationScripts_pending(db, file) ==
    IF GlobJson(files) # {}
    THEN generateMigrationCommands(<<>>, <<>>)
    ELSE generateMigrationCommands(prepareSchemas(db), prepareSchemas(file))

\* generateMigrationScripts once the database is read and the file decoded
generateMigrationScripts(db, file) ==
    generateMigrationCommands(prepareSchemas(db), prepareSchemas(file))

\* GenerateMigrationScripts up to the call of writeMigrationCommands
GenerateScripts ==
    /\ pc = "scripts"
    /\ current' = prepareSchemas(run.db)
    /\ declared' = prepareSchemas(run.file)
    /\ LET r == generateMigrationScripts(run.db, run.file)
           next == dispatch(r.up, r.down, run.dryRun)
       IN /\ toCreate' = r.toCreate
          /\ toDrop' = r.toDrop
          /\ upCommand' = r.up
          /\ downCommand' = r.down
          /\ stdout' = IF next = "printed" THEN DryRunOutput(r.up, r.down)
                       ELSE stdout
          /\ IF next = "write"
             THEN pc' = "mkdir" /\ result' = result
             ELSE Return(next)
    /\ UNCHANGED <<dirExists, files, run, prevRun, before, version, runs>>
    /\ UNCHANGED normVars
    /\ UNCHANGED pipeVars

\* connecting, introspection, or reading or decoding the file fails
ScriptsFail ==
    /\ pc = "scripts"
    /\ Return("error")
    /\ UNCHANGED <<dirExists, files, stdout, run, prevRun, before, version, runs>>
    /\ UNCHANGED normVars
    /\ UNCHANGED diffVars
    /\ UNCHANGED pipeVars

\* writeMigrationCommands: os.MkdirAll
MkdirAll ==
    /\ pc = "mkdir"
    /\ dirExists' = TRUE
    /\ pc' = "version"
    /\ UNCHANGED <<files, stdout, run, prevRun, before, version, result, runs>>
    /\ UNCHANGED normVars
    /\ UNCHANGED diffVars
    /\ UNCHANGED pipeVars

MkdirAllFail ==
    /\ pc = "mkdir"
    /\ Return("error")
    /\ UNCHANGED <<dirExists, files, stdout, run, prevRun, before, version, runs>>
    /\ UNCHANGED normVars
    /\ UNCHANGED diffVars
    /\ UNCHANGED pipeVars

\* writeMigrationCommands: getNextVersion
GetNextVersion ==
    /\ pc = "version"
    /\ LET v == getNextVersion(files)
       IN IF v.err
          THEN Return("error") /\ version' = version
          ELSE pc' = "writeUp" /\ version' = v.value /\ result' = result
    /\ UNCHANGED <<dirExists, files, stdout, run, prevRun, before, runs>>
    /\ UNCHANGED normVars
    /\ UNCHANGED diffVars
    /\ UNCHANGED pipeVars

\* filepath.Glob rejects the pattern made from migrationDir
GetNextVersionFail ==
    /\ pc = "version"
    /\ Return("error")
    /\ UNCHANGED <<dirExists, files, stdout, run, prevRun, before, version, runs>>
    /\ UNCHANGED normVars
    /\ UNCHANGED diffVars
    /\ UNCHANGED pipeVars

\* the first k commands of data: what a write that failed after k commands
\* has put in the file
PartialWrite(data, k) ==
    [isNil |-> FALSE, commands |-> SubSeq(data.commands, 1, k)]

\* variant: a failed write removes the files of its version
FailedWrite_cleanup(fs, fname, data, left) ==
    left = [f \in {g \in DOMAIN fs : g.tok # fname.tok} |-> fs[f]]

\* left is a directory a failed os.WriteFile of data to fname can leave: the
\* file was not opened, or it was created or truncated and holds part of data
FailedWrite(fs, fname, data, left) ==
    \/ left = fs
    \/ \E k \in 0..(Len(data.commands) - 1) :
          left = WriteFile(fs, fname, PartialWrite(data, k))

\* writeMigrationCommands: the up file
WriteUp ==
    /\ pc = "writeUp"
    /\ files' = WriteFile(files, MigrationFileName(version, run.name, ".up.json"),
                          upCommand)
    /\ pc' = "writeDown"
    /\ UNCHANGED <<dirExists, stdout, run, prevRun, before, version, result, runs>>
    /\ UNCHANGED normVars
    /\ UNCHANGED diffVars
    /\ UNCHANGED pipeVars

WriteUpFail ==
    /\ pc = "writeUp"
    /\ FailedWrite(files, MigrationFileName(version, run.name, ".up.json"),
                   upCommand, files')
    /\ Return("error")
    /\ UNCHANGED <<dirExists, stdout, run, prevRun, before, version, runs>>
    /\ UNCHANGED normVars
    /\ UNCHANGED diffVars
    /\ UNCHANGED pipeVars

\* writeMigrationCommands: the down file
WriteDown ==
    /\ pc = "writeDown"
    /\ files' = WriteFile(files, MigrationFileName(version, run.name, ".down.json"),
                          downCommand)
    /\ Return("written")
    /\ UNCHANGED <<dirExists, stdout, run, prevRun, before, version, runs>>
    /\ UNCHANGED normVars
    /\ UNCHANGED diffVars
    /\ UNCHANGED pipeVars

WriteDownFail ==
    /\ pc = "writeDown"
    /\ FailedWrite(files, MigrationFileName(version, run.name, ".down.json"),
                   downCommand, files')
    /\ Return("error")
    /\ UNCHANGED <<dirExists, stdout, run, prevRun, before, version, runs>>
    /\ UNCHANGED normVars
    /\ UNCHANGED diffVars
    /\ UNCHANGED pipeVars

NextGenerate ==
    \/ EditDeclaredFile
    \/ StartRun
    \/ GenerateScripts
    \/ ScriptsFail
    \/ MkdirAll
    \/ MkdirAllFail
    \/ GetNextVersion
    \/ GetNextVersionFail
    \/ WriteUp
    \/ WriteUpFail
    \/ WriteDown
    \/ WriteDownFail

SpecGenerate == InitGenerate /\ [][NextGenerate]_vars

----------------------------------------------------------------------------
(* Properties of the generator, under SpecGenerate *)

\* the invocation returned without an error
Succeeded(outcome) == outcome \in {"nochanges", "printed", "written"}

\* the migration directory is as it was when the invocation started
DirUnchanged == dirExists = before.dirExists /\ files = before.files

\* this invocation and the one before it had the same database and file
SameInputs == prevRun.db = run.db /\ prevRun.file = run.file

UpFile == MigrationFileName(version, run.name, ".up.json")
DownFile == MigrationFileName(version, run.name, ".down.json")

\* C12: when the normalized current and declared snapshots are identical both
\* batches are nil and the invocation succeeds with "no changes" without
\* creating the directory, writing a file or printing a batch, in dry-run
\* and in normal mode; and "no changes" is reported exactly when toCreate
\* and toDrop are both empty.
C12_NoChanges ==
    (pc = "idle" /\ Succeeded(result)) =>
        /\ current = declared =>
              /\ upCommand.isNil /\ downCommand.isNil
              /\ result = "nochanges"
              /\ DirUnchanged
              /\ stdout = <<>>
        /\ result = "nochanges" <=> (toCreate = <<>> /\ toDrop = <<>>)

C12_Witness ==
    /\ pc = "idle" /\ result = "nochanges"
    /\ ~run.dryRun
    /\ current = declared /\ current # <<>>
    /\ run.db # run.file
    /\ ~dirExists

C16_TwoNewFiles ==
    (pc = "idle" /\ result = "written") =>
        /\ Len(UpFile.tok) >= 6 /\ DecimalValue(UpFile.tok) = version
        /\ UpFile.name = run.name /\ DownFile.name = run.name
        /\ DownFile.tok = UpFile.tok
        /\ UpFile \notin DOMAIN before.files
        /\ DownFile \notin DOMAIN before.files
        /\ DOMAIN files = DOMAIN before.files \cup {UpFile, DownFile}
        /\ files[UpFile] = [content |-> upCommand, perm |-> "0600"]
        /\ files[DownFile] = [content |-> downCommand, perm |-> "0600"]
        /\ \A f \in DOMAIN before.files : files[f] = before.files[f]

\* C17: a dry run never creates the directory, allocates a version or writes
\* a file, and the batches it prints are the bytes a normal invocation on the
\* same inputs writes to its two files.
C17_DryRunPure ==
    /\ (runs >= 1 /\ run.dryRun) => (pc \in {"idle", "scripts"} /\ DirUnchanged)
    /\ (pc = "idle" /\ result = "printed") =>
          /\ run.dryRun
          /\ stdout = DryRunOutput(upCommand, downCommand)
    /\ (pc = "idle" /\ result = "written") =>
          /\ ~run.dryRun
          /\ files[UpFile].content = upCommand
          /\ files[DownFile].content = downCommand
    /\ (pc = "idle" /\ runs >= 2 /\ SameInputs /\ result = "printed"
        /\ prevRun.result = "written") =>
          /\ stdout[1].bytes = prevRun.up
          /\ stdout[2].bytes = prevRun.down

C17_Witness ==
    /\ pc = "idle" /\ runs >= 2 /\ SameInputs
    /\ result = "printed" /\ prevRun.result = "written"
    /\ stdout # <<>> /\ ~stdout[1].bytes.isNil
    /\ DirUnchanged /\ files # <<>>

\* C18: a file of the migration directory is never removed or rewritten:
\* every file stays, with the content it had.
C18_FilesNeverRewritten ==
    [][\A f \in DOMAIN files :
          f \in DOMAIN files' /\ files'[f].content = files[f].content]_vars

\* the files named *.down.json are those the directory had when the
\* invocation started
NoDownFileWritten(fs) ==
    \A f \in DOMAIN fs \cup DOMAIN before.files :
        f.ext = ".down.json" =>
            /\ f \in DOMAIN fs /\ f \in DOMAIN before.files
            /\ fs[f] = before.files[f]

\* C23: a failure of MkdirAll, of getNextVersion or of the write of the up
\* file ends writeMigrationCommands with an error and no down file written;
\* a failure of the write of the down file ends it with an error and leaves
\* the up file it wrote in the directory; no step is tried again.
C23_WriteFailuresFatal ==
    [][/\ (pc \in {"mkdir", "version", "writeUp"} /\ pc' = "idle") =>
              (result' = "error" /\ NoDownFileWritten(files'))
       /\ (pc = "writeDown" /\ result' = "error") =>
              /\ pc' = "idle"
              /\ UpFile \in DOMAIN files'
              /\ files'[UpFile].content = upCommand
       /\ (pc \in {"mkdir", "version", "writeUp", "writeDown"} /\ result' = "error") =>
              pc' = "idle"]_vars

C23_Witness ==
    /\ pc = "idle" /\ result = "error"
    /\ UpFile \in DOMAIN files /\ UpFile \notin DOMAIN before.files
    /\ files[UpFile].content = upCommand /\ ~upCommand.isNil
    /\ DownFile \notin DOMAIN files

----------------------------------------------------------------------------
(* Properties of the version scan, under SpecVersion *)

\* the .json files whose name has a leading token before a "_"
TokenFiles(fs) ==
    {f \in DOMAIN fs : f.under /\ f.ext \in {".up.json", ".down.json", ".json"}}

\* those whose leading token is an unsigned integer, and the others
WellFormedFiles(fs) == {f \in TokenFiles(fs) : ~ParseUint(f.tok).err}

MalformedFiles(fs) == {f \in TokenFiles(fs) : ParseUint(f.tok).err}

ExistingVersions(fs) == {DecimalValue(f.tok) : f \in WellFormedFiles(fs)}

Largest(S) == CHOOSE x \in S : \A y \in S : y <= x

\* C14: the next version is 1 + the largest version among the existing
\* migration files, and 1 when there is none or the directory does not
\* exist yet, in which case it is created.
C14_NextVersion ==
    pc = "versioned" =>
        /\ dirExists
        /\ version = IF ExistingVersions(files) = {} THEN 1
                     ELSE Largest(ExistingVersions(files)) + 1

\* C15: a file whose leading token is not an unsigned integer never makes
\* getNextVersion fail; the version is the one computed for the directory
\* without the malformed files, and 1 when no well-formed file remains.
C15_MalformedSkipped ==
    pc = "versioned" =>
        /\ result # "error"
        /\ LET rest == [f \in DOMAIN files \ MalformedFiles(files) |-> files[f]]
           IN /\ ~getNextVersion(rest).err
              /\ version = getNextVersion(rest).value
        /\ WellFormedFiles(files) = {} => version = 1

\* a malformed file next to a well-formed one
C15_Witness ==
    /\ pc = "versioned"
    /\ MalformedFiles(files) # {}
    /\ WellFormedFiles(files) # {}
    /\ version > 1

\* C19: the version given to a new migration is strictly greater than every
\* existing version, over the whole range of the unsigned integers.
C19_StrictlyGreater ==
    pc = "versioned" =>
        \A v \in ExistingVersions(files) : version > v

----------------------------------------------------------------------------
(* The live-schema reader: ReadCurrentSchema over what the database lists *)

ListedCollections == {"posts", "users"}

WeightFields == {"body", "title"}

WeightOf(field) == IF field = "title" THEN 10 ELSE 5

\* the weights documents: the fields in any order, none repeated
ListedWeights ==
    {<<>>} \cup
    UNION { { w \in [1..n -> [Key : WeightFields, Value : {5, 10}]] :
                /\ \A k \in 1..n : w[k].Value = WeightOf(w[k].Key)
                /\ \A k, l \in 1..n : k # l => w[k].Key # w[l].Key }
            : n \in 1..Cardinality(WeightFields) }

\* the keys the server reports: an ordinary key, and the key of a text index
ListedKeys ==
    { <<[Key |-> "email", Value |-> "1"]>>,
      <<[Key |-> "_fts", Value |-> "text"], [Key |-> "_ftsx", Value |-> "1"]>> }

ListedIndexes == [Name : {"search"}, Key : ListedKeys, Weights : ListedWeights]

\* what ListCollectionNames and Indexes().List report
IsListing(S) ==
    \E n \in 0..MaxSchemas :
      \E ks \in [1..n -> 0..MaxIndexes] :
        /\ Sum(ks) <= MaxTotalIndexes
        /\ \E cs \in [1..n -> ListedCollections] :
             /\ \A i, j \in 1..n : i # j => cs[i] # cs[j]
             /\ \E flat \in [1..Sum(ks) -> ListedIndexes] :
                   S = BuildSnapshot(cs, ks, flat)

\* the key built from the weights, field by field
textKey(weights) ==
    [k \in DOMAIN weights |-> [Key |-> weights[k].Key, Value |-> "text"]]

\* variant: the text fields are appended to the reported key
reconstructKey_appended(index) ==
    IF Len(index.Weights) > 0
    THEN [index EXCEPT !.Key = index.Key \o textKey(index.Weights)]
    ELSE index

\* the body of the loop over collectionIndexes
reconstructKey(index) ==
    IF Len(index.Weights) > 0
    THEN [index EXCEPT !.Key = textKey(index.Weights)]
    ELSE index

ReadCurrentSchema(listing) ==
    [i \in DOMAIN listing |->
        [Collection |-> listing[i].Collection,
         Indexes |-> [j \in DOMAIN listing[i].Indexes |->
                         reconstructKey(listing[i].Indexes[j])]]]

InitIntrospect ==
    /\ pc = "start"
    /\ IsListing(input)
    /\ schemas = <<>>
    /\ prepared = <<>>
    /\ prepared2 = <<>>
    /\ current = <<>>
    /\ declared = <<>>
    /\ toCreate = <<>>
    /\ toDrop = <<>>
    /\ upCommand = NilBytes
    /\ downCommand = NilBytes
    /\ GeneratorUnused
    /\ PipelineUnused

\* ReadCurrentSchema returns the schemas
Introspect ==
    /\ pc = "start"
    /\ schemas' = ReadCurrentSchema(input)
    /\ pc' = "read"
    /\ UNCHANGED <<input, prepared, prepared2>>
    /\ UNCHANGED diffVars
    /\ UNCHANGED genVars
    /\ UNCHANGED pipeVars

\* listing the collections or the indexes of one fails: nil and the error
IntrospectFail ==
    /\ pc = "start"
    /\ schemas' = <<>>
    /\ pc' = "failed"
    /\ UNCHANGED <<input, prepared, prepared2>>
    /\ UNCHANGED diffVars
    /\ UNCHANGED genVars
    /\ UNCHANGED pipeVars

NextIntrospect ==
    \/ Introspect
    \/ IntrospectFail

SpecIntrospect == InitIntrospect /\ [][NextIntrospect]_vars

----------------------------------------------------------------------------
(* Properties of the live-schema reader, under SpecIntrospect *)

\* C20: ReadCurrentSchema returns the collections and indexes as listed,
\* except that an index with non-empty weights gets as key one
\* (field, "text") pair per weight, in the order of the weights, and nothing
\* else; an index with empty weights keeps the key that was listed.
C20_TextKeyFromWeights ==
    pc = "read" =>
        /\ Len(schemas) = Len(input)
        /\ \A i \in DOMAIN input :
              /\ schemas[i].Collection = input[i].Collection
              /\ Len(schemas[i].Indexes) = Len(input[i].Indexes)
              /\ \A j \in DOMAIN input[i].Indexes :
                    LET listed == input[i].Indexes[j]
                        read == schemas[i].Indexes[j]
                    IN /\ read.Name = listed.Name
                       /\ read.Weights = listed.Weights
                       /\ Len(listed.Weights) = 0 => read.Key = listed.Key
                       /\ Len(listed.Weights) > 0 =>
                             /\ Len(read.Key) = Len(listed.Weights)
                             /\ \A k \in DOMAIN listed.Weights :
                                   /\ read.Key[k].Key = listed.Weights[k].Key
                                   /\ read.Key[k].Value = "text"

C20_Witness ==
    /\ pc = "read"
    /\ \E i \in DOMAIN input : \E j, l \in DOMAIN input[i].Indexes :
          /\ Len(input[i].Indexes[j].Weights) = 2
          /\ input[i].Indexes[j].Weights[1].Key = "title"
          /\ input[i].Indexes[j].Key # <<>>
          /\ schemas[i].Indexes[j].Key =
                <<[Key |-> "title", Value |-> "text"],
                  [Key |-> "body", Value |-> "text"]>>
          /\ Len(input[i].Indexes[l].Weights) = 0
          /\ schemas[i].Indexes[l].Key = input[i].Indexes[l].Key

----------------------------------------------------------------------------
(* One operation step by step: the diff (GenerateMigrationScripts) or the  *)
(* inspection (InspectCurrentSchema), its MongoDB client and the caller's  *)
(* context, which may be cancelled at any moment.                          *)

Operations == {"diff", "inspect"}

InitPipeline ==
    /\ pc = "connect"
    /\ \E op \in Operations, db \in GenDatabases, file \in GenSnapshots,
          dryRun \in BOOLEAN :
          run = [op |-> op, db |-> db, file |-> file, onDisk |-> file,
                 dryRun |-> dryRun, name |-> "init"]
    /\ dirExists \in BOOLEAN
    /\ \E names \in SUBSET {MigrationFileName(1, "init", ".up.json")} :
          /\ dirExists \/ names = {}
          /\ files = [f \in names |-> OldFile]
    /\ before = [dirExists |-> dirExists, files |-> files]
    /\ prevRun = NoRun
    /\ stdout = <<>>
    /\ version = 0
    /\ result = "running"
    /\ runs = 1
    /\ conn = "none"
    /\ disconnects = 0
    /\ cancelled = FALSE
    /\ procs = <<>>
    /\ input = <<>>
    /\ schemas = <<>>
    /\ prepared = <<>>
    /\ prepared2 = <<>>
    /\ current = <<>>
    /\ declared = <<>>
    /\ toCreate = <<>>
    /\ toDrop = <<>>
    /\ upCommand = NilBytes
    /\ downCommand = NilBytes

\* positions at which the operation has not yet written a migration file
BeforeWrite == {"connect", "connected", "introspected", "declaredRead",
                "inspected", "mkdir", "version", "writeUp"}

\* the caller cancels the context
Cancel ==
    /\ pc \in BeforeWrite
    /\ ~cancelled
    /\ cancelled' = TRUE
    /\ UNCHANGED <<pc, conn, disconnects, procs>>
    /\ UNCHANGED normVars
    /\ UNCHANGED diffVars
    /\ UNCHANGED genVars

\* the error of a step that was given the context
ContextError == IF cancelled THEN "cancelled" ELSE "error"

\* variant: the client is closed on the successful return only
deferredDisconnect_successOnly(outcome) == outcome = "ok"

\* the deferred function of generateMigrationScripts and inspectCurrentSchema
\* runs on every return
deferredDisconnect(outcome) == TRUE

\* the function that holds the client returns with this outcome
ReturnWithClient(outcome) ==
    IF deferredDisconnect(outcome)
    THEN conn' = "closed" /\ disconnects' = disconnects + 1
    ELSE UNCHANGED <<conn, disconnects>>

\* db.ConnectToMongoDB
Connect ==
    /\ pc = "connect"
    /\ conn' = "open"
    /\ pc' = "connected"
    /\ UNCHANGED <<disconnects, cancelled, procs>>
    /\ UNCHANGED normVars
    /\ UNCHANGED diffVars
    /\ UNCHANGED genVars

ConnectFail ==
    /\ pc = "connect"
    /\ Return(ContextError)
    /\ UNCHANGED <<dirExists, files, stdout, run, prevRun, before, version, runs>>
    /\ UNCHANGED pipeVars
    /\ UNCHANGED normVars
    /\ UNCHANGED diffVars

\* db.ReadCurrentSchema under the context, and prepareSchemas of what it read
ReadCurrent ==
    /\ pc = "connected"
    /\ ~cancelled
    /\ current' = IF run.op = "diff" THEN prepareSchemas(run.db) ELSE run.db
    /\ pc' = IF run.op = "diff" THEN "introspected" ELSE "inspected"
    /\ UNCHANGED <<declared, toCreate, toDrop, upCommand, downCommand>>
    /\ UNCHANGED pipeVars
    /\ UNCHANGED normVars
    /\ UNCHANGED genVars

ReadCurrentFail ==
    /\ pc = "connected"
    /\ Return(ContextError)
    /\ ReturnWithClient("error")
    /\ UNCHANGED <<cancelled, procs>>
    /\ UNCHANGED <<dirExists, files, stdout, run, prevRun, before, version, runs>>
    /\ UNCHANGED normVars
    /\ UNCHANGED diffVars

\* readDeclaredSchema, which is not given the context, and prepareSchemas
ReadDeclared ==
    /\ pc = "introspected"
    /\ declared' = prepareSchemas(run.onDisk)
    /\ pc' = "declaredRead"
    /\ UNCHANGED <<current, toCreate, toDrop, upCommand, downCommand>>
    /\ UNCHANGED pipeVars
    /\ UNCHANGED normVars
    /\ UNCHANGED genVars

ReadDeclaredFail ==
    /\ pc = "introspected"
    /\ Return("error")
    /\ ReturnWithClient("error")
    /\ UNCHANGED <<cancelled, procs>>
    /\ UNCHANGED <<dirExists, files, stdout, run, prevRun, before, version, runs>>
    /\ UNCHANGED normVars
    /\ UNCHANGED diffVars

\* generateMigrationCommands, the return of generateMigrationScripts, and
\* GenerateMigrationScripts up to the call of writeMigrationCommands
GenerateCommands ==
    /\ pc = "declaredRead"
    /\ LET r == generateMigrationCommands(current, declared)
           next == dispatch(r.up, r.down, run.dryRun)
       IN /\ toCreate' = r.toCreate
          /\ toDrop' = r.toDrop
          /\ upCommand' = r.up
          /\ downCommand' = r.down
          /\ stdout' = IF next = "printed" THEN DryRunOutput(r.up, r.down)
                       ELSE stdout
          /\ IF next = "write"
             THEN pc' = "mkdir" /\ result' = result
             ELSE Return(next)
    /\ ReturnWithClient("ok")
    /\ UNCHANGED <<cancelled, procs>>
    /\ UNCHANGED <<current, declared>>
    /\ UNCHANGED <<dirExists, files, run, prevRun, before, version, runs>>
    /\ UNCHANGED normVars

\* json.MarshalIndent of a batch fails
GenerateCommandsFail ==
    /\ pc = "declaredRead"
    /\ Return("error")
    /\ ReturnWithClient("error")
    /\ UNCHANGED <<cancelled, procs>>
    /\ UNCHANGED <<dirExists, files, stdout, run, prevRun, before, version, runs>>
    /\ UNCHANGED normVars
    /\ UNCHANGED diffVars

\* inspectCurrentSchema returns the marshalled schemas; InspectCurrentSchema
\* prints them or writes them to the schema file
InspectOutput ==
    /\ pc = "inspected"
    /\ ReturnWithClient("ok")
    /\ IF run.dryRun
       THEN /\ stdout' = <<[label |-> "Schema that would be written",
                            bytes |-> current]>>
            /\ run' = run
            /\ Return("printed")
       ELSE /\ stdout' = stdout
            /\ run' = [run EXCEPT !.onDisk = current]
            /\ Return("written")
    /\ UNCHANGED <<cancelled, procs>>
    /\ UNCHANGED <<dirExists, files, prevRun, before, version, runs>>
    /\ UNCHANGED normVars
    /\ UNCHANGED diffVars

NextPipeline ==
    \/ Cancel
    \/ Connect
    \/ ConnectFail
    \/ ReadCurrent
    \/ ReadCurrentFail
    \/ ReadDeclared
    \/ ReadDeclaredFail
    \/ GenerateCommands
    \/ GenerateCommandsFail
    \/ InspectOutput
    \/ MkdirAll
    \/ MkdirAllFail
    \/ GetNextVersion
    \/ GetNextVersionFail
    \/ WriteUp
    \/ WriteUpFail
    \/ WriteDown
    \/ WriteDownFail

SpecPipeline == InitPipeline /\ [][NextPipeline]_vars

----------------------------------------------------------------------------
(* Properties of the operation, under SpecPipeline *)

\* generateMigrationScripts or inspectCurrentSchema has returned
ClientFunctionReturned == pc \in {"idle", "mkdir", "version", "writeUp", "writeDown"}

\* C21: in every execution of the diff and of the inspection in which the
\* connect step succeeded Disconnect is called exactly once, not before the
\* function that holds the client returns and not later, whether it returns
\* success or fails at introspection, at the declared file or at command
\* generation.
C21_DisconnectOnce ==
    /\ disconnects <= 1
    /\ (conn # "none" /\ ClientFunctionReturned) => (conn = "closed" /\ disconnects = 1)
    /\ (conn # "none" /\ ~ClientFunctionReturned) => (conn = "open" /\ disconnects = 0)
    /\ conn = "none" => disconnects = 0

C21_Witness ==
    /\ pc = "idle" /\ result = "error" /\ run.op = "diff"
    /\ current # <<>>
    /\ conn = "closed" /\ disconnects = 1

\* C22: when the context is cancelled before the migration files are
\* written, the diff returns an error that identifies the cancellation and
\* has written no migration file.
C22_CancellationHonoured ==
    (pc = "idle" /\ cancelled /\ run.op = "diff") =>
        (result = "cancelled" /\ files = before.files)

----------------------------------------------------------------------------
(* The timestamp-based writer of migration/generator.go *)

MaxClock == 2    \* seconds the clock can show

filePermissions == "0644"
upMigrationFileTemplate == ".up.json"
downMigrationFileTemplate == ".up.json"

\* time.Now().Format(timestampFormat): fourteen digits, the seconds last
Format(now) ==
    <<"2", "0", "2", "6", "0", "1", "0", "1", "0", "0", "0", "0", "0">>
        \o DecimalDigits(now)

\* fmt.Sprintf(template, timestamp, migrationName)
TimestampFileName(template, timestamp, name) ==
    [tok |-> timestamp, under |-> TRUE, name |-> name, ext |-> template]

\* os.WriteFile with the permission bits for a file it creates
WriteFileMode(fs, fname, data, perm) ==
    [f \in DOMAIN fs \cup {fname} |->
        IF f = fname
        THEN [content |-> data,
              perm |-> IF fname \in DOMAIN fs THEN fs[fname].perm ELSE perm]
        ELSE fs[f]]

InitTimestampWriter ==
    /\ pc = "mkdir"
    /\ \E db \in GenDatabases, file \in GenSnapshots, name \in MigrationNames :
          LET r == generateMigrationScripts(db, file)
          IN /\ ~r.up.isNil
             /\ run = [NoRun EXCEPT !.db = db, !.file = file, !.onDisk = file,
                                    !.name = name]
             /\ current = prepareSchemas(db)
             /\ declared = prepareSchemas(file)
             /\ toCreate = r.toCreate
             /\ toDrop = r.toDrop
             /\ upCommand = r.up
             /\ downCommand = r.down
    /\ dirExists \in BOOLEAN
    /\ \E names \in SUBSET {TimestampFileName(upMigrationFileTemplate,
                                              Format(0), "init")} :
          /\ dirExists \/ names = {}
          /\ files = [f \in names |-> OldFile]
    /\ before = [dirExists |-> dirExists, files |-> files]
    /\ prevRun = NoRun
    /\ stdout = <<>>
    /\ version = 0
    /\ result = "running"
    /\ runs = 1
    /\ input = <<>>
    /\ schemas = <<>>
    /\ prepared = <<>>
    /\ prepared2 = <<>>
    /\ PipelineUnused

\* writeMigrationCommands of generator.go: the clock is read
ReadClock ==
    /\ pc = "version"
    /\ \E now \in 0..MaxClock : version' = now
    /\ pc' = "writeUp"
    /\ UNCHANGED <<dirExists, files, stdout, run, prevRun, before, result, runs>>
    /\ UNCHANGED normVars
    /\ UNCHANGED diffVars
    /\ UNCHANGED pipeVars

\* the up command is written
TimestampWriteUp ==
    /\ pc = "writeUp"
    /\ files' = WriteFileMode(files,
                              TimestampFileName(upMigrationFileTemplate,
                                                Format(version), run.name),
                              upCommand, filePermissions)
    /\ pc' = "writeDown"
    /\ UNCHANGED <<dirExists, stdout, run, prevRun, before, version, result, runs>>
    /\ UNCHANGED normVars
    /\ UNCHANGED diffVars
    /\ UNCHANGED pipeVars

TimestampWriteUpFail ==
    /\ pc = "writeUp"
    /\ FailedWrite(files, TimestampFileName(upMigrationFileTemplate,
                                            Format(version), run.name),
                   upCommand, files')
    /\ Return("error")
    /\ UNCHANGED <<dirExists, stdout, run, prevRun, before, version, runs>>
    /\ UNCHANGED normVars
    /\ UNCHANGED diffVars
    /\ UNCHANGED pipeVars

\* the down command is written
TimestampWriteDown ==
    /\ pc = "writeDown"
    /\ files' = WriteFileMode(files,
                              TimestampFileName(downMigrationFileTemplate,
                                                Format(version), run.name),
                              downCommand, filePermissions)
    /\ Return("written")
    /\ UNCHANGED <<dirExists, stdout, run, prevRun, before, version, runs>>
    /\ UNCHANGED normVars
    /\ UNCHANGED diffVars
    /\ UNCHANGED pipeVars

TimestampWriteDownFail ==
    /\ pc = "writeDown"
    /\ FailedWrite(files, TimestampFileName(downMigrationFileTemplate,
                                            Format(version), run.name),
                   downCommand, files')
    /\ Return("error")
    /\ UNCHANGED <<dirExists, stdout, run, prevRun, before, version, runs>>
    /\ UNCHANGED normVars
    /\ UNCHANGED diffVars
    /\ UNCHANGED pipeVars

NextTimestampWriter ==
    \/ MkdirAll
    \/ MkdirAllFail
    \/ ReadClock
    \/ TimestampWriteUp
    \/ TimestampWriteUpFail
    \/ TimestampWriteDown
    \/ TimestampWriteDownFail

SpecTimestampWriter == InitTimestampWriter /\ [][NextTimestampWriter]_vars

----------------------------------------------------------------------------
(* Properties of the timestamp-based writer, under SpecTimestampWriter *)

\* C26: a successful writeMigrationCommands leaves two distinct files of
\* its timestamp and name in the directory, one holding upCommand and one
\* holding downCommand: the down write does not replace what the up write
\* wrote.
C26_TwoSiblingFiles ==
    (pc = "idle" /\ result = "written") =>
        \E u, d \in DOMAIN files :
            /\ u # d
            /\ u.tok = Format(version) /\ d.tok = Format(version)
            /\ u.name = run.name /\ d.name = run.name
            /\ files[u].content = upCommand
            /\ files[d].content = downCommand

----------------------------------------------------------------------------
(* Concurrent invocations: several mondex diff processes, each in          *)
(* writeMigrationCommands of part_002, on one migration directory.  Every  *)
(* system call of a process is one step; the processes share nothing but   *)
(* the directory.                                                          *)

NumProcs == 2    \* processes

Procs == 1..NumProcs

InitConcurrent ==
    /\ pc = "concurrent"
    /\ \E db \in GenDatabases, file \in GenSnapshots :
          LET r == generateMigrationScripts(db, file)
          IN /\ ~r.up.isNil
             /\ run = [NoRun EXCEPT !.db = db, !.file = file, !.onDisk = file]
             /\ current = prepareSchemas(db)
             /\ declared = prepareSchemas(file)
             /\ toCreate = r.toCreate
             /\ toDrop = r.toDrop
             /\ upCommand = r.up
             /\ downCommand = r.down
    /\ \E names \in [Procs -> MigrationNames] :
          procs = [p \in Procs |-> [pc |-> "mkdir", version |-> 0,
                                    name |-> names[p], written |-> {}]]
    /\ dirExists \in BOOLEAN
    /\ \E names \in SUBSET {MigrationFileName(1, "init", ".up.json")} :
          /\ dirExists \/ names = {}
          /\ files = [f \in names |-> OldFile]
    /\ before = [dirExists |-> dirExists, files |-> files]
    /\ prevRun = NoRun
    /\ stdout = <<>>
    /\ version = 0
    /\ result = "running"
    /\ runs = NumProcs
    /\ input = <<>>
    /\ schemas = <<>>
    /\ prepared = <<>>
    /\ prepared2 = <<>>
    /\ conn = "none"
    /\ disconnects = 0
    /\ cancelled = FALSE

\* what no step of a process in writeMigrationCommands changes
ProcessFrame ==
    /\ UNCHANGED <<pc, stdout, run, prevRun, before, version, result, runs>>
    /\ UNCHANGED <<conn, disconnects, cancelled>>
    /\ UNCHANGED normVars
    /\ UNCHANGED diffVars

\* os.MkdirAll in process p
MkdirAllBy(p) ==
    /\ procs[p].pc = "mkdir"
    /\ dirExists' = TRUE
    /\ procs' = [procs EXCEPT ![p].pc = "version"]
    /\ UNCHANGED files
    /\ ProcessFrame

\* getNextVersion in process p: the directory as it is at this moment
GetNextVersionBy(p) ==
    /\ procs[p].pc = "version"
    /\ procs' = [procs EXCEPT ![p].pc = "writeUp",
                              ![p].version = getNextVersion(files).value]
    /\ UNCHANGED <<dirExists, files>>
    /\ ProcessFrame

\* os.WriteFile of the up file in process p
WriteUpBy(p) ==
    /\ procs[p].pc = "writeUp"
    /\ LET fname == MigrationFileName(procs[p].version, procs[p].name, ".up.json")
       IN /\ files' = WriteFile(files, fname, upCommand)
          /\ procs' = [procs EXCEPT ![p].pc = "writeDown",
                                    ![p].written = @ \cup {fname}]
    /\ UNCHANGED dirExists
    /\ ProcessFrame

\* os.WriteFile of the down file in process p, and its return
WriteDownBy(p) ==
    /\ procs[p].pc = "writeDown"
    /\ LET fname == MigrationFileName(procs[p].version, procs[p].name, ".down.json")
       IN /\ files' = WriteFile(files, fname, downCommand)
          /\ procs' = [procs EXCEPT ![p].pc = "done",
                                    ![p].written = @ \cup {fname}]
    /\ UNCHANGED dirExists
    /\ ProcessFrame

\* a step of process p fails and the process returns the error
FailBy(p) ==
    /\ procs[p].pc \in {"mkdir", "writeUp", "writeDown"}
    /\ procs' = [procs EXCEPT ![p].pc = "failed"]
    /\ UNCHANGED <<dirExists, files>>
    /\ ProcessFrame

NextConcurrent ==
    \E p \in Procs :
        \/ MkdirAllBy(p)
        \/ GetNextVersionBy(p)
        \/ WriteUpBy(p)
        \/ WriteDownBy(p)
        \/ FailBy(p)

SpecConcurrent == InitConcurrent /\ [][NextConcurrent]_vars

----------------------------------------------------------------------------
(* Properties of concurrent invocations, under SpecConcurrent *)

\* process p has been given its version
HasVersion(p) == procs[p].pc \in {"writeUp", "writeDown", "done"}

\* C25: two generations that run at the same time on one directory are
\* never given the same version number, and neither writes to a file the
\* other has written.
C25_NoInterference ==
    \A p, q \in Procs :
        p # q =>
            /\ (HasVersion(p) /\ HasVersion(q)) =>
                  procs[p].version # procs[q].version
            /\ procs[p].written \cap procs[q].written = {}

============================================================================
